---- MODULE Spec2Model ----
(***************************************************************************)
(* Multi-provider request orchestration of the plan generation service:    *)
(* LLMClient (provider registry, selectProvider, generatePlanWithRetry,    *)
(* tryProviderWithRetry) driving the three provider adapters.              *)
(*                                                                         *)
(* One generatePlanWithRetry call is followed from its invocation to its   *)
(* outcome.  The actions are the pieces of code that run between two       *)
(* awaits: the invocation up to the first adapter call, the continuation   *)
(* after an adapter call settles, and the continuation after a backoff     *)
(* timer fires.                                                            *)
(***************************************************************************)
EXTENDS Integers, Sequences, FiniteSets, TLC

(* ------------------------------ bounds --------------------------------- *)

\* largest retry count a request carries
MaxRetriesBound == 2

\* largest base delay (in ms) a request carries
MaxDelayBound == 1

(* ------------------------- values of the program ----------------------- *)

\* Map insertion order of LLMClient.providers
ProviderOrder == <<"openai", "anthropic", "deepseek">>

LLMProvider == {"openai", "anthropic", "deepseek"}

\* an optional number that is not present (undefined)
Absent == -1

\* statusCode of an LLMError built with statusCode = undefined
NoStatus == 0

\* config.llmMaxRetries and config.llmRetryDelay at their defaults
llmMaxRetries == 3

llmRetryDelay == 1000

\* config.llmMaxTokens and config.llmTemperature at their defaults (the
\* temperature in tenths)
llmMaxTokens == 4096

llmTemperature == 7

\* HTTP statuses the backends answer with in this model
Statuses == {401, 429, 503}

\* HTTP statuses a backend answers one direct adapter call with
AdapterStatuses == {400, 401, 408, 429, 500, 502, 503, 504, 529}

StatusText(s) ==
    CASE s = 400 -> "400"
      [] s = 401 -> "401"
      [] s = 408 -> "408"
      [] s = 429 -> "429"
      [] s = 500 -> "500"
      [] s = 502 -> "502"
      [] s = 503 -> "503"
      [] s = 504 -> "504"
      [] s = 529 -> "529"
      [] OTHER -> "undefined"

\* error texts a backend puts into its error object
BackendMessages == {"m1"}

\* decimal rendering of an attempt number inside a template string
NumberText(n) ==
    CASE n = 1 -> "1"
      [] n = 2 -> "2"
      [] n = 3 -> "3"
      [] n = 4 -> "4"
      [] n = 5 -> "5"
      [] OTHER -> "n"

\* a || b on optional numbers: undefined and 0 are both falsy
OrElse(a, b) == IF a = Absent \/ a = 0 THEN b ELSE a

Pow2(n) == IF n <= 0 THEN 1 ELSE 2 ^ n

\* Array.prototype.filter over a sequence
RECURSIVE Filter(_, _)
Filter(seq, keep) ==
    IF seq = <<>> THEN <<>>
    ELSE IF Head(seq) \in keep
         THEN <<Head(seq)>> \o Filter(Tail(seq), keep)
         ELSE Filter(Tail(seq), keep)

Range(seq) == {seq[i] : i \in 1..Len(seq)}

(* ------------------------------- errors -------------------------------- *)

\* new LLMError(message, provider, statusCode, retryable)
LLMError(message, provider, statusCode, retryable) ==
    [kind |-> "LLMError", message |-> message, provider |-> provider,
     statusCode |-> statusCode, retryable |-> retryable]

\* new Error(message)
PlainError(message) ==
    [kind |-> "Error", message |-> message, provider |-> "none",
     statusCode |-> NoStatus, retryable |-> FALSE]

NoError ==
    [kind |-> "none", message |-> <<>>, provider |-> "none",
     statusCode |-> NoStatus, retryable |-> FALSE]

LLMResponse(provider, model) ==
    [kind |-> "response", provider |-> provider, model |-> model]

NoResult == [kind |-> "pending"]

(* ------------------------------ adapters ------------------------------- *)

\* what a backend does with one outbound request
BackendReactions ==
    [kind : {"completion"}, status : {NoStatus}, message : {"content"}]
    \cup [kind : {"empty"}, status : {NoStatus}, message : {"content"}]
    \cup [kind : {"apiError"}, status : Statuses, message : BackendMessages]

\* the SDK call fails below HTTP (connection refused, timeout): an
\* APIConnectionError, which is an APIError whose status is undefined
TransportFailure ==
    [kind |-> "transport", status |-> NoStatus, message |-> "Connection error."]

\* the SDK call rejects with undefined
UndefinedRejection ==
    [kind |-> "undefined", status |-> NoStatus, message |-> "undefined"]

\* what a backend does with the outbound request of one direct adapter call
AdapterReactions ==
    [kind : {"completion"}, status : {NoStatus}, message : {"content"}]
    \cup [kind : {"empty"}, status : {NoStatus}, message : {"content"}]
    \cup [kind : {"apiError"}, status : AdapterStatuses,
          message : BackendMessages]
    \cup {TransportFailure}

\* the reactions the retry loop is driven with when an adapter's catch
\* clause itself throws
ExecutorReactions ==
    [kind : {"completion"}, status : {NoStatus}, message : {"content"}]
    \cup [kind : {"apiError"}, status : {429}, message : BackendMessages]
    \cup {UndefinedRejection}

\* error.message evaluated with error undefined: the TypeError leaves the
\* catch clause of the adapter in place of an LLMError
MessageOfUndefined ==
    PlainError(<<"Cannot read properties of undefined (reading 'message')">>)

ModelId(p) ==
    CASE p = "openai" -> "openaiModel"
      [] p = "anthropic" -> "anthropicModel"
      [] p = "deepseek" -> "deepseekModel"

\* a classification that takes every client and server error for transient
OpenAIRetryableAnyFailure(status) == status >= 400

OpenAIRetryable(status) == status \in {429, 500, 502, 503}

AnthropicRetryable(status) == status \in {429, 529, 500, 502, 503}

isRetryableError(status) ==
    status >= 500 \/ status \in {429, 408, 502, 503, 504}

\* OpenAIProvider.generateCompletion with a configured key
OpenAIGenerate(model, r) ==
    CASE r.kind = "completion" -> LLMResponse("openai", model)
      [] r.kind = "empty" ->
           \* the LLMError thrown inside the try block is caught by the
           \* catch clause below it and is not an OpenAI.APIError
           LLMError(<<"Unexpected error:", "No content received from OpenAI API">>,
                    "openai", NoStatus, FALSE)
      [] r.kind \in {"apiError", "transport"} ->
           LLMError(<<"OpenAI API error:", r.message>>, "openai", r.status,
                    OpenAIRetryable(r.status))
      [] r.kind = "undefined" -> MessageOfUndefined

\* AnthropicProvider.generateCompletion with a configured key
AnthropicGenerate(model, r) ==
    CASE r.kind = "completion" -> LLMResponse("anthropic", model)
      [] r.kind = "empty" ->
           LLMError(<<"Unexpected error:",
                      "No text content received from Anthropic API">>,
                    "anthropic", NoStatus, FALSE)
      [] r.kind \in {"apiError", "transport"} ->
           LLMError(<<"Anthropic API error:", r.message>>, "anthropic",
                    r.status, AnthropicRetryable(r.status))
      [] r.kind = "undefined" -> MessageOfUndefined

\* a DeepSeek adapter that labels what it produces as the OpenAI adapter does
DeepSeekGenerateAsOpenAI(model, r) == OpenAIGenerate(model, r)

\* DeepSeekProvider.generateCompletion with a configured key
DeepSeekGenerate(model, r) ==
    CASE r.kind = "completion" -> LLMResponse("deepseek", model)
      [] r.kind = "empty" ->
           LLMError(<<"DeepSeek (OpenRouter) API error:", "undefined",
                      "No content returned from DeepSeek (OpenRouter)">>,
                    "deepseek", NoStatus, isRetryableError(NoStatus))
      [] r.kind \in {"apiError", "transport"} ->
           LLMError(<<"DeepSeek (OpenRouter) API error:", StatusText(r.status),
                      r.message>>,
                    "deepseek", r.status, isRetryableError(r.status))
      [] r.kind = "undefined" -> MessageOfUndefined

NotConfiguredText(p) ==
    CASE p = "openai" -> "OpenAI API key not configured"
      [] p = "anthropic" -> "Anthropic API key not configured"
      [] p = "deepseek" -> "DeepSeek (OpenRouter) API key not configured"

\* an adapter that takes itself for configured whatever its key is
isConfiguredAlways(p, keys) == TRUE

\* isConfigured() of adapter p, keys being the set of providers whose API
\* key is set
isConfigured(p, keys) == p \in keys

\* provider.generateCompletion(request) of adapter p
generateCompletion(p, keys, model, r) ==
    IF ~isConfigured(p, keys)
    THEN LLMError(<<NotConfiguredText(p)>>, p, NoStatus, FALSE)
    ELSE CASE p = "openai" -> OpenAIGenerate(model, r)
           [] p = "anthropic" -> AnthropicGenerate(model, r)
           [] p = "deepseek" -> DeepSeekGenerate(model, r)

(* -------------------------------- state -------------------------------- *)

VARIABLES
    apiKeys,            \* providers whose API key is set in config
    llmEnableFallback,  \* config.llmEnableFallback
    defaultProvider,    \* LLMClient.defaultProvider
    request,            \* the LLMRequest given to generatePlanWithRetry
    pc,                 \* "idle", "call" (adapter call pending),
                        \* "wait" (backoff timer pending), "done"
    exec,               \* frame of the running tryProviderWithRetry
    orch,               \* frame of generatePlanWithRetry
    calls,              \* generateCompletion invocations, in order
    outcomes,           \* how each settled invocation ended, in order
    waits,              \* backoff timers started, in order
    runs,               \* tryProviderWithRetry invocations, in order
    settled,            \* what the latest adapter call returned or threw
    result,             \* what generatePlanWithRetry returned or threw
    defaultLlmProvider, \* config.defaultLlmProvider
    selections,         \* direct selectProvider calls and what they gave
    adapter,            \* a direct generateCompletion call on one adapter
    other,              \* a second generatePlanWithRetry call, suspended at
                        \* an await while the first one runs
    planFiles,          \* ids of the plan files in data/plans
    indexFile,          \* content of data/plans/index.json
    posts,              \* the POST /plans requests, by plan id
    got,                \* the latest getPlanById call and what it gave
    ops,                \* the savePlan and deletePlan calls made one after
                        \* the other, and how each ended
    validation          \* frame of a validateProviders call

vars == <<apiKeys, llmEnableFallback, defaultProvider, request, pc, exec,
          orch, calls, outcomes, waits, runs, settled, result,
          defaultLlmProvider, selections, adapter, other, planFiles,
          indexFile, posts, got, ops, validation>>

\* the plan storage and the requests of the plans router
storage == <<planFiles, indexFile, posts, got, ops>>

config == <<apiKeys, llmEnableFallback, defaultProvider, defaultLlmProvider>>

\* the variables of one generatePlanWithRetry call
call == <<request, pc, exec, orch, calls, outcomes, waits, runs, settled,
          result>>

(* ------------------------------ registry ------------------------------- *)

\* the configured providers in the reverse of the registration order
getAvailableProvidersReversed(keys) ==
    Filter(<<"deepseek", "anthropic", "openai">>, keys)

\* LLMClient.getAvailableProviders
getAvailableProviders(keys) == Filter(ProviderOrder, keys)

\* a constructor that takes the configured default as it is
ConstructedDefaultAsConfigured(keys, configured) == configured

\* defaultProvider as the constructor resolves it
ConstructedDefault(keys, configured) ==
    IF configured \in Range(getAvailableProviders(keys))
    THEN configured
    ELSE IF getAvailableProviders(keys) # <<>>
         THEN getAvailableProviders(keys)[1]
         ELSE "openai"

NoPreference == "none"

\* a resolution that takes a given preference without asking the adapter
selectedProviderNameUnchecked(preferred, keys, default) ==
    IF preferred # NoPreference THEN preferred ELSE default

\* LLMClient.selectProvider: the provider name it resolves to, before the
\* availability check
selectedProviderName(preferred, keys, default) ==
    IF preferred # NoPreference /\ preferred \in LLMProvider /\ preferred \in keys
    THEN preferred
    ELSE default

\* a selection that rotates over the available providers from call to call
selectProviderRotating(preferred, keys, default) ==
    LET available == getAvailableProviders(keys)
    IN  IF available = <<>>
        THEN PlainError(<<"No LLM providers are available. Please configure API keys.">>)
        ELSE LET name == available[(Len(selections) % Len(available)) + 1]
             IN  [kind |-> "selection", providerName |-> name,
                  model |-> ModelId(name)]

\* LLMClient.selectProvider: the returned selection, or the Error it throws
selectProvider(preferred, keys, default) ==
    LET name == selectedProviderName(preferred, keys, default)
    IN  IF name \notin keys
        THEN PlainError(<<"No LLM providers are available. Please configure API keys.">>)
        ELSE [kind |-> "selection", providerName |-> name,
              model |-> ModelId(name)]

(* ------------------------------ requests ------------------------------- *)

\* what the caller puts into prompt, systemPrompt, model.maxTokens and
\* model.temperature (in tenths)
CallerPrompt == "callerPrompt"

CallerSystemPrompt == "callerSystemPrompt"

CallerMaxTokens == 1024

CallerTemperature == 0

LLMRequests ==
    [prompt : {CallerPrompt},
     systemPrompt : {CallerSystemPrompt},
     provider : LLMProvider,
     model : {"callerModel"},
     maxTokens : {CallerMaxTokens},
     temperature : {CallerTemperature},
     maxRetries : {Absent} \cup 0..MaxRetriesBound,
     retryDelay : {Absent} \cup 0..MaxDelayBound,
     isFallbackAttempt : BOOLEAN]

\* an adapter request that keeps the model id the caller sent
updatedRequestKeepingModel(providerName, model, req) ==
    [req EXCEPT !.provider = providerName]

\* an adapter request that starts from a cleared fallback flag
updatedRequestClearingFlag(providerName, model, req) ==
    [req EXCEPT !.provider = providerName, !.model = model,
                !.isFallbackAttempt = FALSE]

\* an adapter request whose output limit and temperature are those of the
\* selected provider's default model
updatedRequestDefaultLimits(providerName, model, req) ==
    [req EXCEPT !.provider = providerName, !.model = model,
                !.maxTokens = llmMaxTokens, !.temperature = llmTemperature]

\* the request handed to the adapter: model.provider and model.model are
\* overwritten, everything else is spread from the incoming request
updatedRequest(providerName, model, req) ==
    [req EXCEPT !.provider = providerName, !.model = model]

\* the request built for a fallback candidate
fallbackRequest(fallbackProviderName, req) ==
    [req EXCEPT !.provider = fallbackProviderName,
                !.model = ModelId(fallbackProviderName),
                !.isFallbackAttempt = TRUE]

NoExec ==
    [providerName |-> "none", attempt |-> 0, maxRetries |-> 0,
     baseDelay |-> 0, lastError |-> NoError,
     request |-> [prompt |-> "none", systemPrompt |-> "none",
                  provider |-> "none", model |-> "none",
                  maxTokens |-> 0, temperature |-> 0,
                  maxRetries |-> Absent, retryDelay |-> Absent,
                  isFallbackAttempt |-> FALSE]]

NoOrch ==
    [providerName |-> "none", error |-> NoError, fallbackProviders |-> <<>>,
     index |-> 0]

\* a loop that takes up the attempt counter of the other call in flight
EnterExecutorSharedCounter(providerName, model, req, cfgRetries, cfgDelay) ==
    [providerName |-> providerName,
     attempt |-> IF other.pc \in {"call", "wait"} THEN other.exec.attempt
                 ELSE 1,
     maxRetries |-> OrElse(req.maxRetries, cfgRetries),
     baseDelay |-> OrElse(req.retryDelay, cfgDelay),
     lastError |-> NoError,
     request |-> updatedRequest(providerName, model, req)]

\* a loop whose attempt counter starts at 0
EnterExecutorAtZero(providerName, model, req, cfgRetries, cfgDelay) ==
    [providerName |-> providerName,
     attempt |-> 0,
     maxRetries |-> OrElse(req.maxRetries, cfgRetries),
     baseDelay |-> OrElse(req.retryDelay, cfgDelay),
     lastError |-> NoError,
     request |-> updatedRequest(providerName, model, req)]

\* a loop that goes on counting where the previous run of the same
\* generatePlanWithRetry call stopped
EnterExecutorContinuing(providerName, model, req, cfgRetries, cfgDelay) ==
    [providerName |-> providerName,
     attempt |-> IF exec.attempt = 0 THEN 1 ELSE exec.attempt,
     maxRetries |-> OrElse(req.maxRetries, cfgRetries),
     baseDelay |-> OrElse(req.retryDelay, cfgDelay),
     lastError |-> NoError,
     request |-> updatedRequest(providerName, model, req)]

\* entry of tryProviderWithRetry up to its first adapter call
EnterExecutor(providerName, model, req, cfgRetries, cfgDelay) ==
    [providerName |-> providerName,
     attempt |-> 1,
     maxRetries |-> OrElse(req.maxRetries, cfgRetries),
     baseDelay |-> OrElse(req.retryDelay, cfgDelay),
     lastError |-> NoError,
     request |-> updatedRequest(providerName, model, req)]

\* a backoff whose exponent is the attempt number itself
BackoffDelayOffByOne(baseDelay, attempt) == baseDelay * Pow2(attempt)

\* delay of the backoff timer started after a failed attempt
BackoffDelay(baseDelay, attempt) == baseDelay * Pow2(attempt - 1)

\* a loop that gives up one attempt early
LastAttemptEarly(attempt, maxRetries) == attempt >= maxRetries

\* the loop stops after a failed attempt when no attempt is left
LastAttempt(attempt, maxRetries) == attempt > maxRetries

\* a loop that retries whatever the error is
ShouldRetryAnyError(error, attempt, maxRetries) ==
    ~LastAttempt(attempt, maxRetries)

\* a loop that gives its provider up at the first failure
ShouldRetryNever(error, attempt, maxRetries) == FALSE

\* after a failed attempt the loop waits and goes round again
ShouldRetry(error, attempt, maxRetries) ==
    error.retryable /\ ~LastAttempt(attempt, maxRetries)

\* a loop that rethrows whatever the adapter threw
ThrownUnwrapped(providerName, lastError, error) == error

\* a loop that keeps the first error it captured
ThrownFirstCaptured(providerName, lastError, error) ==
    IF lastError.kind = "LLMError" THEN lastError ELSE error

\* what tryProviderWithRetry throws when it stops after a failed attempt:
\* the LLMError of that attempt (lastError = error), or a wrapper around
\* anything else
Thrown(providerName, lastError, error) ==
    IF error.kind = "LLMError"
    THEN error
    ELSE LLMError(<<"Unexpected error:">> \o error.message, providerName,
                  NoStatus, FALSE)

(* ------------------------- consolidated failure ------------------------ *)

\* a consolidated message that leaves the fallback providers out
AllFailedMessageWithoutFallbacks(providerName, error, fallbackProviders) ==
    <<"All configured LLM providers failed. Primary provider", providerName,
      "failed with:">> \o error.message

\* a consolidated message that leaves the primary failure reason out
AllFailedMessageWithoutReason(providerName, error, fallbackProviders) ==
    <<"All configured LLM providers failed. Primary provider", providerName,
      "failed with:">> \o <<"Fallback providers (">> \o fallbackProviders
      \o <<") also failed. Please check your API keys and provider status.">>

\* the message of the error thrown after every fallback candidate failed
AllFailedMessage(providerName, error, fallbackProviders) ==
    <<"All configured LLM providers failed. Primary provider", providerName,
      "failed with:">> \o error.message \o <<"Fallback providers (">>
      \o fallbackProviders
      \o <<") also failed. Please check your API keys and provider status.">>

\* a consolidated error that takes an empty candidate list for an empty
\* registry
ConsolidatedErrorOnNoCandidates(providerName, error, fallbackProviders, keys) ==
    IF fallbackProviders = <<>>
    THEN LLMError(<<"No LLM providers are configured. Please check your API keys in the environment configuration.">>,
                  providerName, NoStatus, FALSE)
    ELSE LLMError(AllFailedMessage(providerName, error, fallbackProviders),
                  providerName, error.statusCode, FALSE)

\* a consolidated error that passes on whether the primary's error was
\* retryable
ConsolidatedErrorKeepingRetryable(providerName, error, fallbackProviders, keys) ==
    LLMError(AllFailedMessage(providerName, error, fallbackProviders),
             providerName, error.statusCode, error.retryable)

\* the error thrown when the fallback loop is over and no candidate succeeded
ConsolidatedError(providerName, error, fallbackProviders, keys) ==
    IF getAvailableProviders(keys) = <<>>
    THEN LLMError(<<"No LLM providers are configured. Please check your API keys in the environment configuration.">>,
                  providerName, NoStatus, FALSE)
    ELSE LLMError(AllFailedMessage(providerName, error, fallbackProviders),
                  providerName, error.statusCode, FALSE)

\* a candidate list that keeps the provider that just failed
FallbackCandidatesWithPrimary(keys, providerName) ==
    getAvailableProviders(keys)

\* a candidate list that is always empty
FallbackCandidatesNone(keys, providerName) == <<>>

\* the candidates of the fallback loop
FallbackCandidates(keys, providerName) ==
    Filter(getAvailableProviders(keys), LLMProvider \ {providerName})

\* a catch clause that does not look at request.isFallbackAttempt
FallbackIgnoringFlag(enabled, error, req) ==
    enabled /\ error.kind = "LLMError"

\* a catch clause that does not look at config.llmEnableFallback
FallbackIgnoringConfig(enabled, error, req) ==
    error.kind = "LLMError" /\ ~req.isFallbackAttempt

\* fallback is taken after the primary failed with error
FallbackAllowed(enabled, error, req) ==
    enabled /\ error.kind = "LLMError" /\ ~req.isFallbackAttempt

(* ------------------------------- actions ------------------------------- *)

NoAdapterCall ==
    [pc |-> "idle", provider |-> "none", requests |-> 0,
     reaction |-> [kind |-> "none", status |-> NoStatus, message |-> "none"],
     out |-> NoResult]

\* the process configuration is read once, then the LLMClient singleton is
\* constructed
Constructed ==
    /\ apiKeys \in SUBSET LLMProvider
    /\ llmEnableFallback \in BOOLEAN
    /\ defaultLlmProvider \in LLMProvider
    /\ defaultProvider = ConstructedDefault(apiKeys, defaultLlmProvider)

\* the local state of a generatePlanWithRetry call that has not started
IdleCall ==
    [request |-> NoExec.request, pc |-> "idle", exec |-> NoExec,
     orch |-> NoOrch, calls |-> <<>>, outcomes |-> <<>>, waits |-> <<>>,
     runs |-> <<>>, settled |-> NoError, result |-> NoResult]

\* plan ids (crypto.randomUUID) of the POST /plans requests followed
PlanIds == {"id1", "id2"}

\* the index readIndex returns for a missing or unreadable index file
EmptyIndex == [plans |-> <<>>, totalCount |-> 0]

\* a POST /plans request that has not arrived
NoPost ==
    [pc |-> "new", planned |-> FALSE, attempt |-> 0, index |-> EmptyIndex,
     readOk |-> TRUE, wrote |-> FALSE, saved |-> FALSE, response |-> "none"]

NoLookup == [id |-> "none", found |-> FALSE, afterSuccess |-> FALSE]

\* a validateProviders call that has not started
NoValidation ==
    [pc |-> "new", configured |-> <<>>, index |-> 0, working |-> <<>>,
     errors |-> {}, tests |-> <<>>]

\* the state after construction; no call is in progress and the storage is
\* empty
Init ==
    /\ Constructed
    /\ selections = <<>>
    /\ adapter = NoAdapterCall
    /\ other = IdleCall
    /\ planFiles = {}
    /\ indexFile = EmptyIndex
    /\ posts = [id \in PlanIds |-> NoPost]
    /\ got = NoLookup
    /\ ops = <<>>
    /\ validation = NoValidation
    /\ request = NoExec.request
    /\ pc = "idle"
    /\ exec = NoExec
    /\ orch = NoOrch
    /\ calls = <<>>
    /\ outcomes = <<>>
    /\ waits = <<>>
    /\ runs = <<>>
    /\ settled = NoError
    /\ result = NoResult

CallEntry(e) ==
    [provider |-> e.providerName, attempt |-> e.attempt,
     fallback |-> e.request.isFallbackAttempt,
     requestProvider |-> e.request.provider, model |-> e.request.model,
     prompt |-> e.request.prompt, systemPrompt |-> e.request.systemPrompt,
     maxTokens |-> e.request.maxTokens,
     temperature |-> e.request.temperature]

RunEntry(e) ==
    [provider |-> e.providerName, fallback |-> e.request.isFallbackAttempt]

\* a generatePlanWithRetry that keeps the provider it selected as the new
\* default of the client
StartAdoptingSelection(req) ==
    /\ pc = "idle"
    /\ request' = req
    /\ LET sel == selectProvider(req.provider, apiKeys, defaultProvider)
       IN  IF sel.kind = "Error"
           THEN /\ pc' = "done"
                /\ result' = sel
                /\ UNCHANGED <<exec, orch, calls, runs, defaultProvider>>
           ELSE LET e == EnterExecutor(sel.providerName, sel.model, req,
                                       llmMaxRetries, llmRetryDelay)
                IN  /\ pc' = "call"
                    /\ exec' = e
                    /\ orch' = [NoOrch EXCEPT !.providerName = sel.providerName]
                    /\ calls' = Append(calls, CallEntry(e))
                    /\ runs' = Append(runs, RunEntry(e))
                    /\ result' = NoResult
                    /\ defaultProvider' = sel.providerName
    /\ UNCHANGED <<apiKeys, llmEnableFallback, defaultLlmProvider, outcomes,
                   waits, settled, selections, validation, adapter, other,
                   storage>>

\* generatePlanWithRetry(req) from its invocation to the first await
Start(req) ==
    /\ pc = "idle"
    /\ request' = req
    /\ LET sel == selectProvider(req.provider, apiKeys, defaultProvider)
       IN  IF sel.kind = "Error"
           THEN /\ pc' = "done"
                /\ result' = sel
                /\ UNCHANGED <<exec, orch, calls, runs>>
           ELSE LET e == EnterExecutor(sel.providerName, sel.model, req,
                                       llmMaxRetries, llmRetryDelay)
                IN  /\ pc' = "call"
                    /\ exec' = e
                    /\ orch' = [NoOrch EXCEPT !.providerName = sel.providerName]
                    /\ calls' = Append(calls, CallEntry(e))
                    /\ runs' = Append(runs, RunEntry(e))
                    /\ result' = NoResult
    /\ UNCHANGED <<config, outcomes, waits, settled, selections, validation,
                   adapter, other, storage>>

\* what follows a tryProviderWithRetry that threw error: the catch clause of
\* generatePlanWithRetry or the next round of its fallback loop.  The result
\* is the control state at the next await or at the end of the call.
AfterExecutorThrows(error) ==
    LET primaryRun == orch.index = 0
        primaryError == IF primaryRun THEN error ELSE orch.error
        candidates ==
            IF primaryRun
            THEN FallbackCandidates(apiKeys, orch.providerName)
            ELSE orch.fallbackProviders
        next == orch.index + 1
    IN  IF primaryRun /\ ~FallbackAllowed(llmEnableFallback, error, request)
        THEN [pc |-> "done", result |-> error, exec |-> exec, orch |-> orch,
              entered |-> FALSE]
        ELSE IF next > Len(candidates)
        THEN [pc |-> "done",
              result |-> ConsolidatedError(orch.providerName, primaryError,
                                           candidates, apiKeys),
              exec |-> exec,
              orch |-> [orch EXCEPT !.error = primaryError,
                                    !.fallbackProviders = candidates],
              entered |-> FALSE]
        ELSE [pc |-> "call", result |-> NoResult,
              exec |-> EnterExecutor(candidates[next], ModelId(candidates[next]),
                                     fallbackRequest(candidates[next], request),
                                     llmMaxRetries, llmRetryDelay),
              orch |-> [orch EXCEPT !.error = primaryError,
                                    !.fallbackProviders = candidates,
                                    !.index = next],
              entered |-> TRUE]

\* the adapter call settles with backend reaction r: the rest of the loop
\* body of tryProviderWithRetry and whatever follows it up to the next await
AdapterSettles(r) ==
    /\ pc = "call"
    /\ LET out == generateCompletion(exec.providerName, apiKeys,
                                     exec.request.model, r)
       IN  /\ settled' = out
           /\ outcomes' = Append(outcomes,
                 [provider |-> exec.providerName, ok |-> out.kind = "response",
                  retryable |-> out.kind # "response" /\ out.retryable])
           /\ IF out.kind = "response"
              THEN /\ pc' = "done"
                   /\ result' = out
                   /\ UNCHANGED <<exec, orch, calls, waits, runs>>
              ELSE IF ShouldRetry(out, exec.attempt, exec.maxRetries)
              THEN /\ pc' = "wait"
                   /\ exec' = [exec EXCEPT !.lastError = out]
                   /\ waits' = Append(waits,
                         [provider |-> exec.providerName,
                          attempt |-> exec.attempt,
                          delay |-> BackoffDelay(exec.baseDelay, exec.attempt)])
                   /\ UNCHANGED <<orch, calls, runs, result>>
              ELSE LET thrown == Thrown(exec.providerName, exec.lastError, out)
                       after == AfterExecutorThrows(thrown)
                   IN  /\ pc' = after.pc
                       /\ result' = after.result
                       /\ exec' = IF after.entered THEN after.exec
                                  ELSE [exec EXCEPT !.lastError = thrown]
                       /\ orch' = after.orch
                       /\ calls' = IF after.entered
                                   THEN Append(calls, CallEntry(after.exec))
                                   ELSE calls
                       /\ runs' = IF after.entered
                                  THEN Append(runs, RunEntry(after.exec))
                                  ELSE runs
                       /\ UNCHANGED waits
    /\ UNCHANGED <<config, request, selections, validation, adapter, other,
                   storage>>

\* the backoff timer fires: the loop goes to its next attempt and calls the
\* adapter again
TimerFires ==
    /\ pc = "wait"
    /\ pc' = "call"
    /\ exec' = [exec EXCEPT !.attempt = exec.attempt + 1]
    /\ calls' = Append(calls, CallEntry(exec'))
    /\ UNCHANGED <<config, request, orch, outcomes, waits, runs, settled,
                   result, selections, validation, adapter, other, storage>>

Next ==
    \/ \E req \in LLMRequests : Start(req)
    \/ \E r \in BackendReactions : AdapterSettles(r)
    \/ TimerFires

Spec == Init /\ [][Next]_vars

\* the same call, driven with the reactions that make an adapter's own
\* catch clause throw
NextUnexpected ==
    \/ \E req \in LLMRequests : Start(req)
    \/ \E r \in ExecutorReactions : AdapterSettles(r)
    \/ TimerFires

SpecUnexpected == Init /\ [][NextUnexpected]_vars

(* ------------------------ the registry on its own ---------------------- *)

\* most selectProvider calls followed on one LLMClient
MaxSelections == 2

\* what a caller passes as preferredProvider: nothing, a registered provider
\* or a name the providers Map does not hold
Preferences == LLMProvider \cup {NoPreference, "unregistered"}

\* LLMClient.selectProvider(preferred), called directly: it reads the
\* registry and writes nothing
Select(preferred) ==
    /\ Len(selections) < MaxSelections
    /\ selections' = Append(selections,
          [preferred |-> preferred,
           result |-> selectProvider(preferred, apiKeys, defaultProvider)])
    /\ UNCHANGED <<config, call, validation, adapter, other, storage>>

NextRegistry == \E preferred \in Preferences : Select(preferred)

SpecRegistry == Init /\ [][NextRegistry]_vars

(* ------------------------ one adapter on its own ----------------------- *)

\* generateCompletion of adapter p from its invocation to the outbound
\* request, or to the throw of the configuration check
AdapterCalled(p) ==
    /\ adapter.pc = "idle"
    /\ IF ~isConfigured(p, apiKeys)
       THEN adapter' = [NoAdapterCall EXCEPT
                          !.pc = "settled", !.provider = p,
                          !.out = generateCompletion(p, apiKeys, ModelId(p),
                                                     NoAdapterCall.reaction)]
       ELSE adapter' = [NoAdapterCall EXCEPT
                          !.pc = "sent", !.provider = p, !.requests = 1]
    /\ UNCHANGED <<config, call, selections, validation, other, storage>>

\* an adapter that sends its request once more when the backend answers
\* with an error it takes for transient
BackendAnswersResending(r) ==
    /\ adapter.pc = "sent"
    /\ LET out == generateCompletion(adapter.provider, apiKeys,
                                     ModelId(adapter.provider), r)
       IN  IF out.kind = "LLMError" /\ out.retryable /\ adapter.requests < 2
           THEN adapter' = [adapter EXCEPT !.requests = adapter.requests + 1]
           ELSE adapter' = [adapter EXCEPT !.pc = "settled", !.reaction = r,
                                           !.out = out]
    /\ UNCHANGED <<config, call, selections, validation, other, storage>>

\* the backend reacts with r: the rest of generateCompletion
BackendAnswers(r) ==
    /\ adapter.pc = "sent"
    /\ adapter' = [adapter EXCEPT
                     !.pc = "settled", !.reaction = r,
                     !.out = generateCompletion(adapter.provider, apiKeys,
                                                ModelId(adapter.provider), r)]
    /\ UNCHANGED <<config, call, selections, validation, other, storage>>

NextAdapter ==
    \/ \E p \in LLMProvider : AdapterCalled(p)
    \/ \E r \in AdapterReactions : BackendAnswers(r)

SpecAdapter == Init /\ [][NextAdapter]_vars

(* ----------------------- two calls in flight --------------------------- *)

\* retry count the two concurrent calls ask for
ConcurrentRetries == 1

\* the requests of the two concurrent calls
ConcurrentRequests ==
    [prompt : {CallerPrompt},
     systemPrompt : {CallerSystemPrompt},
     provider : LLMProvider,
     model : {"callerModel"},
     maxTokens : {CallerMaxTokens},
     temperature : {CallerTemperature},
     maxRetries : {ConcurrentRetries},
     retryDelay : {Absent},
     isFallbackAttempt : BOOLEAN]

\* the backend reactions of the two concurrent calls: a completion, a
\* fatal and a retryable error
ConcurrentReactions ==
    [kind : {"completion"}, status : {NoStatus}, message : {"content"}]
    \cup [kind : {"apiError"}, status : {401, 429}, message : BackendMessages]

\* the local state of the call whose continuation runs next
RunningCall ==
    [request |-> request, pc |-> pc, exec |-> exec, orch |-> orch,
     calls |-> calls, outcomes |-> outcomes, waits |-> waits, runs |-> runs,
     settled |-> settled, result |-> result]

\* the event loop turns to the other call: each call is suspended at an
\* await (or has not started, or is over) with its locals kept
Switch ==
    /\ other' = RunningCall
    /\ request' = other.request
    /\ pc' = other.pc
    /\ exec' = other.exec
    /\ orch' = other.orch
    /\ calls' = other.calls
    /\ outcomes' = other.outcomes
    /\ waits' = other.waits
    /\ runs' = other.runs
    /\ settled' = other.settled
    /\ result' = other.result
    /\ UNCHANGED <<config, selections, validation, adapter, storage>>

\* at least two providers are configured, so that fallback has candidates
InitConcurrent == Init /\ Cardinality(apiKeys) >= 2

NextConcurrent ==
    \/ \E req \in ConcurrentRequests : Start(req)
    \/ \E r \in ConcurrentReactions : AdapterSettles(r)
    \/ TimerFires
    \/ Switch

SpecConcurrent == InitConcurrent /\ [][NextConcurrent]_vars

(* --------------------------- validateProviders ------------------------- *)

\* a request without a system prompt
NoSystemPrompt == "undefined"

\* the request testConnection(provider) builds: the default model of the
\* given provider, or of defaultProvider when none is given
TestRequest(provider, default) ==
    LET p == IF provider = NoPreference THEN default ELSE provider
    IN  [prompt |-> "Say \"OK\" if you can read this",
         systemPrompt |-> NoSystemPrompt,
         provider |-> p, model |-> ModelId(p),
         maxTokens |-> llmMaxTokens, temperature |-> llmTemperature,
         maxRetries |-> 1, retryDelay |-> llmRetryDelay,
         isFallbackAttempt |-> FALSE]

\* what testConnection returns for the outcome of generatePlanWithRetry
TestConnectionResult(outcome) == outcome.kind = "response"

\* validateProviders from its invocation to the first testConnection
ValidateProviders ==
    /\ validation.pc = "new"
    /\ pc = "idle"
    /\ LET configured == getAvailableProviders(apiKeys)
       IN  validation' = [NoValidation EXCEPT
                            !.pc = IF configured = <<>> THEN "done"
                                   ELSE "testing",
                            !.configured = configured,
                            !.index = 1]
    /\ UNCHANGED <<config, call, selections, adapter, other, storage>>

\* testConnection(providerName) of the running loop round, up to the first
\* await inside generatePlanWithRetry
TestConnection ==
    /\ validation.pc = "testing"
    /\ Start(TestRequest(validation.configured[validation.index],
                         defaultProvider))

\* generatePlanWithRetry is over: testConnection returns true or false, the
\* loop body of validateProviders files the provider and the loop goes to
\* its next round or ends
TestConnectionReturns ==
    /\ validation.pc = "testing"
    /\ pc = "done"
    /\ LET providerName == validation.configured[validation.index]
           isWorking == TestConnectionResult(result)
       IN  validation' =
             [validation EXCEPT
                !.working = IF isWorking THEN Append(@, providerName) ELSE @,
                !.errors = IF isWorking THEN @
                           ELSE @ \cup {[provider |-> providerName,
                                         message |-> "Connection test failed"]},
                !.tests = Append(@, [provider |-> providerName,
                                     returned |-> isWorking,
                                     answeredBy |-> IF isWorking
                                                    THEN result.provider
                                                    ELSE "none"]),
                !.index = @ + 1,
                !.pc = IF validation.index = Len(validation.configured)
                       THEN "done" ELSE "testing"]
    /\ request' = IdleCall.request
    /\ pc' = IdleCall.pc
    /\ exec' = IdleCall.exec
    /\ orch' = IdleCall.orch
    /\ calls' = IdleCall.calls
    /\ outcomes' = IdleCall.outcomes
    /\ waits' = IdleCall.waits
    /\ runs' = IdleCall.runs
    /\ settled' = IdleCall.settled
    /\ result' = IdleCall.result
    /\ UNCHANGED <<config, selections, adapter, other, storage>>

NextValidate ==
    \/ ValidateProviders
    \/ TestConnection
    \/ \E r \in BackendReactions : AdapterSettles(r)
    \/ TimerFires
    \/ TestConnectionReturns

SpecValidate == Init /\ [][NextValidate]_vars

(* --------------------- plans router and plan storage ------------------- *)

\* maxRetries of the index update loop of savePlan
IndexMaxRetries == 5

Null == [id |-> "null"]

\* status of a stored plan
PlanStatuses == {"completed", "failed"}

\* the PlanIndexEntry savePlan builds for a plan
IndexEntry(id, status) == [id |-> id, status |-> status]

\* the plan ids an index lists
IndexIds(index) == {index.plans[i].id : i \in 1..Len(index.plans)}

\* a lookup that goes by the index file
GetPlanByIdFromIndex(id, files, index) ==
    IF id \in IndexIds(index) THEN [id |-> id] ELSE Null

\* getPlanById: the stored plan read from its plan file, or null when
\* fs.access finds no such file; the index is not consulted
GetPlanById(id, files, index) ==
    IF id \in files THEN [id |-> id] ELSE Null

\* an index update that pushes the entry whether or not the id is listed
UpsertAlwaysPush(plans, indexEntry) == Append(plans, indexEntry)

\* savePlan, index update: the entry replaces the one with the same id or is
\* pushed at the end
Upsert(plans, indexEntry) ==
    LET found == {i \in 1..Len(plans) : plans[i].id = indexEntry.id}
    IN  IF found # {}
        THEN LET existingIndex == CHOOSE i \in found :
                                      \A j \in found : i <= j
             IN  [plans EXCEPT ![existingIndex] = indexEntry]
        ELSE Append(plans, indexEntry)

\* the index savePlan writes: the index it read, with the entry put in and
\* totalCount set to the number of entries
IndexWithEntry(index, indexEntry) ==
    [plans |-> Upsert(index.plans, indexEntry),
     totalCount |-> Len(Upsert(index.plans, indexEntry))]

\* POST /plans after generatePlan returned: the response built after the
\* try/catch around savePlan
PostResponse(saved) == "success"

\* POST /plans arrives and the planning module runs: it returns a plan with
\* id, or throws and the request fails
PostReceived(id, planned) ==
    /\ posts[id].pc = "new"
    /\ posts' = [posts EXCEPT ![id] =
          IF planned THEN [@ EXCEPT !.pc = "saving", !.planned = TRUE]
          ELSE [@ EXCEPT !.pc = "done", !.response = "error"]]
    /\ UNCHANGED <<config, call, selections, validation, adapter, other, ops,
                   planFiles, indexFile, got>>

\* savePlan up to the plan file: ensureStorageDirectory and fs.writeFile of
\* the plan file succeed, or one of them throws and savePlan fails
PlanFileWritten(id, ok) ==
    /\ posts[id].pc = "saving"
    /\ IF ok
       THEN /\ planFiles' = planFiles \cup {id}
            /\ posts' = [posts EXCEPT ![id] =
                  [@ EXCEPT !.pc = "readIndex", !.attempt = 1, !.wrote = TRUE]]
       ELSE /\ posts' = [posts EXCEPT ![id] = [@ EXCEPT !.pc = "respond"]]
            /\ UNCHANGED planFiles
    /\ UNCHANGED <<config, call, selections, validation, adapter, other, ops,
                   indexFile, got>>

\* readIndex settles: the index as it is on disk, or an empty index when the
\* file cannot be read
IndexRead(id, ok) ==
    /\ posts[id].pc = "readIndex"
    /\ posts' = [posts EXCEPT ![id] =
          [@ EXCEPT !.pc = "writeIndex",
                    !.index = IF ok THEN indexFile ELSE EmptyIndex,
                    !.readOk = @ /\ ok]]
    /\ UNCHANGED <<config, call, selections, validation, adapter, other, ops,
                   planFiles, indexFile, got>>

\* writeIndex settles: the index that was read, with the entry of id, is on
\* disk and savePlan returns; or the write threw and the loop waits before
\* its next attempt, or gives up after the last one
IndexWritten(id, ok) ==
    /\ posts[id].pc = "writeIndex"
    /\ IF ok
       THEN /\ indexFile' = IndexWithEntry(posts[id].index,
                                           IndexEntry(id, "completed"))
            /\ posts' = [posts EXCEPT ![id] =
                  [@ EXCEPT !.pc = "respond", !.saved = TRUE]]
       ELSE /\ posts' = [posts EXCEPT ![id] =
                  IF posts[id].attempt = IndexMaxRetries
                  THEN [@ EXCEPT !.pc = "respond"]
                  ELSE [@ EXCEPT !.pc = "indexWait"]]
            /\ UNCHANGED indexFile
    /\ UNCHANGED <<config, call, selections, validation, adapter, other, ops,
                   planFiles, got>>

\* the backoff timer of the index update loop fires
IndexTimerFires(id) ==
    /\ posts[id].pc = "indexWait"
    /\ posts' = [posts EXCEPT ![id] =
          [@ EXCEPT !.pc = "readIndex", !.attempt = @ + 1]]
    /\ UNCHANGED <<config, call, selections, validation, adapter, other, ops,
                   planFiles, indexFile, got>>

\* the handler answers after savePlan returned or threw
Respond(id) ==
    /\ posts[id].pc = "respond"
    /\ posts' = [posts EXCEPT ![id] =
          [@ EXCEPT !.pc = "done", !.response = PostResponse(posts[id].saved)]]
    /\ UNCHANGED <<config, call, selections, validation, adapter, other, ops,
                   planFiles, indexFile, got>>

\* getPlanById(id), as GET /plans/:id calls it
GetPlan(id) ==
    /\ got' = [id |-> id,
               found |-> GetPlanById(id, planFiles, indexFile) # Null,
               afterSuccess |-> posts[id].response = "success"]
    /\ UNCHANGED <<config, call, selections, validation, adapter, other, ops,
                   planFiles, indexFile, posts>>

\* the service with every provider configured
InitPlans ==
    /\ Init
    /\ apiKeys = LLMProvider
    /\ llmEnableFallback
    /\ defaultLlmProvider = "openai"

NextPlans ==
    \E id \in PlanIds :
        \/ \E planned \in BOOLEAN : PostReceived(id, planned)
        \/ \E ok \in BOOLEAN : PlanFileWritten(id, ok)
        \/ \E ok \in BOOLEAN : IndexRead(id, ok)
        \/ \E ok \in BOOLEAN : IndexWritten(id, ok)
        \/ IndexTimerFires(id)
        \/ Respond(id)
        \/ GetPlan(id)

SpecPlans == InitPlans /\ [][NextPlans]_vars

(* ------------------ savePlan and deletePlan, one at a time ------------- *)

\* most storage calls followed, one after the other
MaxStorageOps == 3

\* deletePlan, index update: the entries of other ids, in their order
WithoutEntry(plans, id) == SelectSeq(plans, LAMBDA entry : entry.id # id)

\* savePlan(plan, status) from call to return or throw, no other storage
\* call running meanwhile.  accessOk: ensureStorageDirectory finds the index
\* file (else it writes an empty one); fileOk: the plan file write succeeds;
\* readOk: readIndex of the deciding attempt reads the file (else it gives
\* the empty index); writeOk: writeIndex succeeds on one of the attempts of
\* the retry loop
SavePlan(id, status, accessOk, fileOk, readOk, writeOk) ==
    /\ Len(ops) < MaxStorageOps
    /\ planFiles' = IF fileOk THEN planFiles \cup {id} ELSE planFiles
    /\ LET ensured == IF accessOk THEN indexFile ELSE EmptyIndex
       IN  indexFile' = IF fileOk /\ writeOk
                        THEN IndexWithEntry(IF readOk THEN ensured
                                            ELSE EmptyIndex,
                                            IndexEntry(id, status))
                        ELSE ensured
    /\ ops' = Append(ops, [op |-> "savePlan", id |-> id, status |-> status,
                           returned |-> IF fileOk /\ writeOk THEN "plan"
                                        ELSE "threw"])
    /\ UNCHANGED <<config, call, selections, validation, adapter, other,
                   posts, got>>

\* deletePlan(id) from call to return or throw, no other storage call
\* running meanwhile.  unlinkOk: fs.unlink of the plan file succeeds
DeletePlan(id, unlinkOk, readOk, writeOk) ==
    /\ Len(ops) < MaxStorageOps
    /\ LET unlinked == unlinkOk /\ id \in planFiles
           index == IF readOk THEN indexFile ELSE EmptyIndex
           remaining == WithoutEntry(index.plans, id)
           listed == Len(remaining) # Len(index.plans)
       IN  /\ planFiles' = IF unlinked THEN planFiles \ {id} ELSE planFiles
           /\ indexFile' = IF unlinked /\ listed /\ writeOk
                           THEN [plans |-> remaining,
                                 totalCount |-> Len(remaining)]
                           ELSE indexFile
           /\ ops' = Append(ops,
                 [op |-> "deletePlan", id |-> id, status |-> "none",
                  returned |-> IF ~unlinked \/ ~listed THEN "false"
                               ELSE IF writeOk THEN "true" ELSE "threw"])
    /\ UNCHANGED <<config, call, selections, validation, adapter, other,
                   posts, got>>

NextStorage ==
    \E id \in PlanIds :
        \/ \E status \in PlanStatuses,
                 accessOk, fileOk, readOk, writeOk \in BOOLEAN :
              SavePlan(id, status, accessOk, fileOk, readOk, writeOk)
        \/ \E unlinkOk, readOk, writeOk \in BOOLEAN :
              DeletePlan(id, unlinkOk, readOk, writeOk)

SpecStorage == InitPlans /\ [][NextStorage]_vars

(* ---------------------- the failure the caller sees -------------------- *)

\* LLMClient.generatePlan: what its catch clause throws for the error of
\* generatePlanWithRetry
ClientGeneratePlanError(error) ==
    IF error.kind = "LLMError"
    THEN PlainError(<<"Plan generation failed (", error.provider, "):">>
                      \o error.message)
    ELSE PlainError(<<"Plan generation failed:">> \o error.message)

\* the message texts of this model in which the lower-cased search of the
\* planning module finds "authentication", "api key", "invalid",
\* "unauthorized" or "401"
AuthenticationTexts ==
    {"401",
     ") also failed. Please check your API keys and provider status.",
     "No LLM providers are available. Please configure API keys.",
     "No LLM providers are configured. Please check your API keys in the environment configuration."}
    \cup {NotConfiguredText(p) : p \in LLMProvider}

\* ... finds "quota", "rate limit", "429" or "exceeded"
RateLimitTexts == {"429"}

\* ... finds "no llm providers", "providers are configured" or
\* "all configured llm providers failed"
ConfigurationTexts ==
    {"All configured LLM providers failed. Primary provider",
     "No LLM providers are available. Please configure API keys.",
     "No LLM providers are configured. Please check your API keys in the environment configuration."}

\* errorMessage.includes(...) for one group of search words
Includes(message, texts) == \E i \in 1..Len(message) : message[i] \in texts

\* generatePlan of the planning module: what its catch clause throws for the
\* Error of LLMClient.generatePlan
PlanningError(error) ==
    IF Includes(error.message, AuthenticationTexts)
    THEN PlainError(<<"Authentication failed: Please check your LLM provider API keys in the environment configuration. Ensure at least one provider (OpenAI, Anthropic, or DeepSeek) has a valid API key.">>)
    ELSE IF Includes(error.message, RateLimitTexts)
    THEN PlainError(<<"Rate limit or quota exceeded: Your LLM provider usage limits have been reached. Please check your billing status or try again later.">>)
    ELSE IF Includes(error.message, ConfigurationTexts)
    THEN PlainError(<<"LLM configuration error: No properly configured LLM providers found. Please ensure at least one provider (OpenAI, Anthropic, or DeepSeek) is configured with a valid API key.">>)
    ELSE PlainError(<<"Plan generation failed:">> \o error.message)

\* the request is one LLMClient.generatePlan builds for the planning module:
\* the default provider, no fallback flag, the configured retry count and
\* delay (which a request that carries none runs with as well)
FromGeneratePlan ==
    /\ request.provider = defaultProvider
    /\ ~request.isFallbackAttempt
    /\ request.maxRetries = Absent
    /\ request.retryDelay = Absent

\* the failure of the call as the caller of the planning module gets it
Delivered == PlanningError(ClientGeneratePlanError(result))

(* --------------------------- reading the history ----------------------- *)

CallsOf(p) == SelectSeq(calls, LAMBDA c : c.provider = p)

OutcomesOf(p) == SelectSeq(outcomes, LAMBDA o : o.provider = p)

WaitsOf(p) == SelectSeq(waits, LAMBDA w : w.provider = p)

RetryableFailure(o) == ~o.ok /\ o.retryable

FatalFailure(o) == ~o.ok /\ ~o.retryable

\* the retry count a request asks for: its own, or the configured one when it
\* carries none
RequestedMaxRetries ==
    IF request.maxRetries = Absent THEN llmMaxRetries ELSE request.maxRetries

\* the base delay of the executor: the request's when it carries a positive
\* one, the configured one otherwise
RequestedBaseDelay ==
    IF request.retryDelay > 0 THEN request.retryDelay ELSE llmRetryDelay

\* message m occurs inside message msg
Carries(msg, m) ==
    \E i \in 1..Len(msg) :
        /\ i + Len(m) - 1 <= Len(msg)
        /\ SubSeq(msg, i, i + Len(m) - 1) = m

\* position of a provider in the registration order of the constructor
RegistrationRank(p) ==
    CASE p = "openai" -> 1
      [] p = "anthropic" -> 2
      [] p = "deepseek" -> 3

(* -------------------------------- claims ------------------------------- *)

\* C1: if the first k <= maxRetries calls of an adapter fail with a retryable
\* LLMError, the executor waits baseDelay * 2^(i-1) after the i-th of them
\* and makes call k+1; if that call succeeds the adapter was invoked exactly
\* k+1 times and the call returns that success.
C1_RetryThenSucceed ==
    \A p \in LLMProvider :
        LET outs == OutcomesOf(p)
            cs == CallsOf(p)
            ws == WaitsOf(p)
            n == Len(outs)
        IN  \A k \in 0..RequestedMaxRetries :
              /\ (cs # <<>> /\ k <= n /\ \A i \in 1..k : RetryableFailure(outs[i]))
                   => /\ \A i \in 1..k :
                            /\ Len(ws) >= i
                            /\ ws[i].delay = RequestedBaseDelay * (2 ^ (i - 1))
                      /\ n = k =>
                            /\ exec.providerName = p
                            /\ \/ pc = "call" /\ Len(cs) = k + 1
                               \/ pc = "wait" /\ Len(cs) = k /\ Len(ws) = k
              /\ (n = k + 1 /\ outs[k + 1].ok
                    /\ \A i \in 1..k : RetryableFailure(outs[i]))
                   => /\ Len(cs) = k + 1
                      /\ Len(ws) = k
                      /\ pc = "done"
                      /\ result.kind = "response"
                      /\ result.provider = p
                      /\ result = settled

C1_Witness ==
    /\ pc = "done"
    /\ request.maxRetries = 2
    /\ request.retryDelay = 1
    /\ result.kind = "response"
    /\ Len(outcomes) = 3
    /\ RetryableFailure(outcomes[1])
    /\ RetryableFailure(outcomes[2])
    /\ outcomes[3].ok
    /\ waits = <<[provider |-> result.provider, attempt |-> 1, delay |-> 1],
                 [provider |-> result.provider, attempt |-> 2, delay |-> 2]>>

\* C2: if the first call of an adapter fails with a non-retryable LLMError,
\* the executor invokes the adapter once, starts no backoff timer and throws
\* that error, whatever maxRetries is.
C2_FatalFirstCall ==
    \A p \in LLMProvider :
        LET outs == OutcomesOf(p)
            thrown == IF orch.error.kind = "none" THEN result ELSE orch.error
        IN  (outs # <<>> /\ FatalFailure(outs[1]))
              => /\ Len(CallsOf(p)) = 1
                 /\ Len(outs) = 1
                 /\ WaitsOf(p) = <<>>
                 /\ ~(exec.providerName = p /\ pc \in {"call", "wait"})
                 /\ p = orch.providerName
                      => /\ thrown.kind = "LLMError"
                         /\ thrown.provider = p
                         /\ ~thrown.retryable
                         /\ Len(outcomes) = 1 => thrown = settled

C2_Witness ==
    /\ pc = "done"
    /\ request.maxRetries = 2
    /\ Len(outcomes) = 1
    /\ FatalFailure(outcomes[1])
    /\ Len(calls) = 1
    /\ waits = <<>>
    /\ result = settled
    /\ result.statusCode = 401

\* C3: a request that carries maxRetries = m (m >= 0, m = 0 included) makes
\* the executor invoke an adapter at most m + 1 times.
C3_RequestCeiling ==
    \A p \in LLMProvider :
        request.maxRetries # Absent
          => Len(CallsOf(p)) <= request.maxRetries + 1

\* the fallback loop of generatePlanWithRetry was entered
FallbackEntered == orch.error.kind # "none"

\* generatePlanWithRetry threw the consolidated "all providers failed" error
TotalFailure ==
    /\ pc = "done"
    /\ FallbackEntered
    /\ result.kind = "LLMError"

\* C4: after the primary failed with fallback enabled, the executor runs at
\* most once for each remaining configured provider, never again for the
\* primary, and only generatePlanWithRetry itself starts those runs (each
\* carries isFallbackAttempt = true and is one of the candidates fixed when
\* the primary failed), before total failure is declared.
C4_EachCandidateOnce ==
    /\ \A i, j \in 1..Len(runs) :
          i # j => runs[i].provider # runs[j].provider
    /\ \A i \in 2..Len(runs) :
          /\ runs[i].provider # runs[1].provider
          /\ runs[i].provider \in apiKeys
          /\ runs[i].fallback
          /\ runs[i].provider = orch.fallbackProviders[i - 1]
          /\ llmEnableFallback
    /\ Len(runs) <= 1 + Len(orch.fallbackProviders)
    /\ TotalFailure => Len(runs) = Cardinality(apiKeys)

C4_Witness ==
    /\ TotalFailure
    /\ Len(runs) = 3
    /\ runs[1].provider = "anthropic"

\* C5: a request that comes in with isFallbackAttempt = true and whose
\* provider fails makes no other adapter run, and the executor's error is
\* what generatePlanWithRetry throws.
C5_NoFallbackOfFallback ==
    (pc # "idle" /\ request.isFallbackAttempt)
      => /\ Len(runs) <= 1
         /\ \A i \in 1..Len(calls) : calls[i].provider = orch.providerName
         /\ ~FallbackEntered
         /\ (pc = "done" /\ runs # <<>> /\ ~outcomes[Len(outcomes)].ok)
              => /\ result = settled
                 /\ result.kind = "LLMError"
                 /\ result.provider = orch.providerName

C5_Witness ==
    /\ pc = "done"
    /\ request.isFallbackAttempt
    /\ llmEnableFallback
    /\ apiKeys = LLMProvider
    /\ result.kind = "LLMError"
    /\ result.retryable
    /\ Len(runs) = 1

\* C6: with config.llmEnableFallback = false a failed primary makes no other
\* provider run, and generatePlanWithRetry throws the executor's error as it
\* is: same provider, status code, retryable flag and message.
C6_FallbackDisabled ==
    (pc # "idle" /\ ~llmEnableFallback)
      => /\ \A i \in 1..Len(runs) : runs[i].provider = orch.providerName
         /\ \A i \in 1..Len(calls) : calls[i].provider = orch.providerName
         /\ Len(runs) <= 1
         /\ (pc = "done" /\ runs # <<>> /\ ~outcomes[Len(outcomes)].ok)
              => /\ result.kind = "LLMError"
                 /\ result.provider = settled.provider
                 /\ result.statusCode = settled.statusCode
                 /\ result.retryable = settled.retryable
                 /\ result.message = settled.message

C6_Witness ==
    /\ pc = "done"
    /\ ~llmEnableFallback
    /\ ~request.isFallbackAttempt
    /\ apiKeys = LLMProvider
    /\ result.kind = "LLMError"
    /\ result.statusCode = 503
    /\ Len(calls) = 3

\* C7: the fallback candidates are the configured providers in registration
\* order (openai, anthropic, deepseek) without the provider that failed; they
\* are tried in that order, the first success ends the call with that
\* response and nothing is invoked after it.
C7_CandidateOrder ==
    /\ FallbackEntered =>
          LET cands == orch.fallbackProviders
          IN  /\ Range(cands) = apiKeys \ {orch.providerName}
              /\ \A i, j \in 1..Len(cands) :
                    i < j => RegistrationRank(cands[i]) < RegistrationRank(cands[j])
              /\ \A i \in 2..Len(runs) : runs[i].provider = cands[i - 1]
              /\ pc = "done" =>
                    \/ result.kind = "response"
                    \/ Len(runs) = 1 + Len(cands)
    /\ \A i \in 1..Len(outcomes) :
          outcomes[i].ok
            => /\ i = Len(outcomes)
               /\ pc = "done"
               /\ result.kind = "response"
               /\ result.provider = outcomes[i].provider
               /\ result.provider = runs[Len(runs)].provider
               /\ Len(calls) = Len(outcomes)

C7_Witness ==
    /\ pc = "done"
    /\ orch.providerName = "anthropic"
    /\ orch.fallbackProviders = <<"openai", "deepseek">>
    /\ Len(runs) = 3
    /\ runs[2].provider = "openai"
    /\ result.kind = "response"
    /\ result.provider = "deepseek"

\* C8 (scenario C): exactly X and Y are configured, X is the primary and
\* its first attempt fails non-retryably; then X is called once, Y is the
\* next provider tried (fallback enabled, request not itself a fallback
\* attempt) and, when Y's first attempt succeeds, the call returns Y's
\* response after one adapter call against each.
C8_ScenarioC ==
    \A X, Y \in LLMProvider :
        (/\ X # Y
         /\ apiKeys = {X, Y}
         /\ orch.providerName = X
         /\ outcomes # <<>>
         /\ FatalFailure(outcomes[1]))
          => /\ Len(CallsOf(X)) = 1
             /\ (llmEnableFallback /\ ~request.isFallbackAttempt)
                   => /\ Len(runs) = 2
                      /\ runs[2].provider = Y
                      /\ calls[2].provider = Y
             /\ (Len(outcomes) >= 2 /\ outcomes[2].ok)
                   => /\ pc = "done"
                      /\ result.kind = "response"
                      /\ result.provider = Y
                      /\ Len(CallsOf(Y)) = 1
                      /\ Len(calls) = 2

C8_Witness ==
    /\ pc = "done"
    /\ apiKeys = {"openai", "deepseek"}
    /\ orch.providerName = "deepseek"
    /\ Len(outcomes) = 2
    /\ FatalFailure(outcomes[1])
    /\ outcomes[2].ok
    /\ result.kind = "response"
    /\ result.provider = "openai"

\* scenario D: exactly X and Y are configured, X is the primary, and both
\* ran out of attempts on retryable errors
BothExhausted(X, Y) ==
    /\ X # Y
    /\ apiKeys = {X, Y}
    /\ orch.providerName = X
    /\ pc = "done"
    /\ Len(runs) = 2
    /\ runs[2].provider = Y
    /\ \A i \in 1..Len(outcomes) : RetryableFailure(outcomes[i])

\* C9 as stated: the consolidated error names X and Y and carries the final
\* error message of X and the final error message of Y.
C9_CarriesBothMessages ==
    \A X, Y \in LLMProvider :
        BothExhausted(X, Y)
          => /\ result.kind = "LLMError"
             /\ Carries(result.message, <<X>>)
             /\ Carries(result.message, <<Y>>)
             /\ Carries(result.message, orch.error.message)
             /\ Carries(result.message, settled.message)

\* C9 as amended: the consolidated error names X and Y and carries the final
\* error message of X; the final error of Y is the adapter's own, is not
\* thrown, and its message is not part of the consolidated message.
C9_NamesBothCarriesPrimary ==
    \A X, Y \in LLMProvider :
        BothExhausted(X, Y)
          => /\ result.kind = "LLMError"
             /\ result.provider = X
             /\ Carries(result.message, <<X, "failed with:">> \o orch.error.message)
             /\ Carries(result.message, <<"Fallback providers (", Y>>)
             /\ orch.error.provider = X
             /\ orch.error.retryable
             /\ settled.provider = Y
             /\ settled.retryable
             /\ ~Carries(result.message, settled.message)

C9_Witness ==
    /\ BothExhausted("openai", "anthropic")
    /\ Len(CallsOf("openai")) = 3
    /\ Len(CallsOf("anthropic")) = 3
    /\ orch.error.statusCode = 503
    /\ settled.statusCode = 429

\* scenario B: X is the primary, the request carries maxRetries = 2,
\* fallback is disabled and every answer of X's backend was a 429
ScenarioB(X) ==
    /\ pc = "done"
    /\ orch.providerName = X
    /\ request.maxRetries = 2
    /\ ~llmEnableFallback
    /\ outcomes # <<>>
    /\ \A i \in 1..Len(outcomes) : RetryableFailure(outcomes[i])
    /\ settled.statusCode = 429

\* C10 as stated: three attempts against X, then a retryable error that
\* cites X and the attempt count 3.
C10_ErrorCitesAttemptCount ==
    \A X \in LLMProvider :
        ScenarioB(X)
          => /\ Len(CallsOf(X)) = 3
             /\ result.kind = "LLMError"
             /\ result.retryable
             /\ result.provider = X
             /\ Carries(result.message, <<NumberText(3)>>)

\* C10 as amended: three attempts against X and no other adapter call, then
\* the error of the third attempt is thrown unchanged: retryable, provider X,
\* status 429; the attempt count 3 is in the attempt log only.
C10_ScenarioB ==
    \A X \in LLMProvider :
        ScenarioB(X)
          => /\ Len(CallsOf(X)) = 3
             /\ Len(calls) = 3
             /\ calls[3].attempt = 3
             /\ Len(waits) = 2
             /\ result = settled
             /\ result.kind = "LLMError"
             /\ result.retryable
             /\ result.provider = X
             /\ result.statusCode = 429
             /\ ~Carries(result.message, <<NumberText(3)>>)

C10_Witness ==
    /\ ScenarioB("anthropic")
    /\ apiKeys = {"anthropic"}
    /\ Len(calls) = 3
    /\ result.retryable

(* ------------------------- registry and adapters ----------------------- *)

NoProvidersAvailableMessage ==
    <<"No LLM providers are available. Please configure API keys.">>

NoProvidersConfiguredMessage ==
    <<"No LLM providers are configured. Please check your API keys in the environment configuration.">>

\* C11 as stated: with no provider configured the call ends in selectProvider
\* with a normalized error (an LLMError that is not retryable) and no adapter
\* was invoked.
C11_SelectionFailsNormalized ==
    (apiKeys = {} /\ pc = "done")
      => /\ calls = <<>>
         /\ result.kind = "LLMError"
         /\ ~result.retryable

\* C12: with no provider configured generatePlanWithRetry ends with the
\* "no providers" error of selectProvider, never with the consolidated
\* "all configured providers failed" error and without an adapter call; with
\* at least one provider configured no "no providers" error is ever the
\* outcome.
C12_NoProvidersDistinct ==
    /\ apiKeys = {}
         => /\ pc \in {"idle", "done"}
            /\ calls = <<>>
            /\ pc = "done"
                 => /\ result.kind = "Error"
                    /\ result.message = NoProvidersAvailableMessage
                    /\ ~Carries(result.message,
                          <<"All configured LLM providers failed. Primary provider">>)
    /\ apiKeys # {}
         => /\ pc # "idle" => calls # <<>>
            /\ pc = "done"
                 => /\ result.kind # "Error"
                    /\ result.kind = "LLMError"
                         => /\ result.message # NoProvidersAvailableMessage
                            /\ result.message # NoProvidersConfiguredMessage

C12_Witness ==
    /\ apiKeys = {}
    /\ pc = "done"
    /\ request.provider = "anthropic"
    /\ result.message = NoProvidersAvailableMessage

\* the direct adapter call has settled after the backend reacted
Answered == adapter.pc = "settled" /\ adapter.requests = 1

\* C13 as stated: a backend success without content leaves every adapter as
\* a retryable LLMError.
C13_EmptyIsRetryable ==
    (Answered /\ adapter.reaction.kind = "empty")
      => /\ adapter.out.kind = "LLMError"
         /\ adapter.out.retryable

RetryableStatuses == {429, 408, 500, 502, 503, 504}

\* C14 as stated: every adapter classifies each of the statuses 429, 408,
\* 500, 502, 503 and 504 as retryable.
C14_TransientStatusesRetryable ==
    (Answered /\ adapter.reaction.kind = "apiError"
       /\ adapter.reaction.status \in RetryableStatuses)
      => /\ adapter.out.kind = "LLMError"
         /\ adapter.out.retryable

\* C15: a backend answer of HTTP 400 or 401 leaves every adapter as an
\* LLMError that is not retryable and carries that status code and the
\* identity of the adapter.
C15_ClientErrorsFatal ==
    (Answered /\ adapter.reaction.kind = "apiError"
       /\ adapter.reaction.status \in {400, 401})
      => /\ adapter.out.kind = "LLMError"
         /\ ~adapter.out.retryable
         /\ adapter.out.statusCode = adapter.reaction.status
         /\ adapter.out.provider = adapter.provider

C15_Witness ==
    /\ Answered
    /\ adapter.provider = "openai"
    /\ adapter.reaction.status = 400
    /\ ~adapter.out.retryable

\* C16: generateCompletion of an adapter that is not configured fails with an
\* LLMError that is not retryable and names the adapter, and no outbound
\* request was issued.
C16_UnconfiguredNeverCalls ==
    (adapter.pc # "idle" /\ adapter.provider \notin apiKeys)
      => /\ adapter.pc = "settled"
         /\ adapter.requests = 0
         /\ adapter.out.kind = "LLMError"
         /\ ~adapter.out.retryable
         /\ adapter.out.provider = adapter.provider
         /\ adapter.out.message = <<NotConfiguredText(adapter.provider)>>

C16_Witness ==
    /\ adapter.pc = "settled"
    /\ adapter.provider = "deepseek"
    /\ apiKeys = {"openai", "anthropic"}
    /\ adapter.requests = 0

C18_PreferredOrDefault ==
    \A i \in 1..Len(selections) :
        LET s == selections[i]
            usable == s.preferred # NoPreference /\ s.preferred \in apiKeys
            returned == s.result.kind = "selection"
        IN  /\ (returned /\ s.result.providerName = s.preferred) <=> usable
            /\ returned => s.result.providerName \in apiKeys
            /\ ~usable
                 => IF defaultProvider \in apiKeys
                    THEN returned /\ s.result.providerName = defaultProvider
                    ELSE s.result.kind = "Error"

C18_Witness ==
    /\ Len(selections) = 2
    /\ selections[1].preferred = "deepseek"
    /\ selections[1].result.kind = "selection"
    /\ selections[1].result.providerName = "deepseek"
    /\ selections[2].preferred = "anthropic"
    /\ selections[2].result.kind = "selection"
    /\ selections[2].result.providerName = "openai"
    /\ defaultProvider = "openai"

\* no identity: what the claim calls a defaultProvider left undefined
Undefined == "undefined"

\* C19 as stated: defaultProvider is the configured default when that one is
\* available, else the first available provider in registration order, else
\* undefined.
C19_DefaultOrUndefined ==
    defaultProvider =
        IF defaultLlmProvider \in apiKeys THEN defaultLlmProvider
        ELSE IF apiKeys # {}
             THEN CHOOSE p \in apiKeys :
                     \A q \in apiKeys : RegistrationRank(p) <= RegistrationRank(q)
             ELSE Undefined

\* C19 as amended: defaultProvider is the configured default when that one is
\* available, else the first available provider in registration order, else
\* "openai" when no provider is configured; selectProvider then fails on it.
C19_DefaultResolution ==
    /\ defaultProvider =
          IF defaultLlmProvider \in apiKeys THEN defaultLlmProvider
          ELSE IF apiKeys # {}
               THEN CHOOSE p \in apiKeys :
                       \A q \in apiKeys :
                           RegistrationRank(p) <= RegistrationRank(q)
               ELSE "openai"
    /\ apiKeys = {}
         => \A i \in 1..Len(selections) : selections[i].result.kind = "Error"

C19_Witness ==
    /\ defaultLlmProvider = "openai"
    /\ apiKeys = {"anthropic", "deepseek"}
    /\ defaultProvider = "anthropic"
    /\ Len(selections) = 1
    /\ selections[1].preferred = NoPreference
    /\ selections[1].result.kind = "selection"
    /\ selections[1].result.providerName = "anthropic"

\* C20: within one call chain the fallback flag is never cleared: a request
\* that arrives with isFallbackAttempt = true reaches every adapter call with
\* it, and after an adapter call whose request has it every later call's
\* request (each retry and each later fallback candidate) has it too.
C20_FallbackFlagKept ==
    /\ (pc # "idle" /\ request.isFallbackAttempt)
         => \A i \in 1..Len(calls) : calls[i].fallback
    /\ \A i \in 1..Len(calls) : \A j \in 1..Len(calls) :
          (i < j /\ calls[i].fallback) => calls[j].fallback
    /\ calls # <<>>
         => calls[Len(calls)].fallback = exec.request.isFallbackAttempt
    /\ \A i \in 1..Len(runs) : \A j \in 1..Len(runs) :
          (i < j /\ runs[i].fallback) => runs[j].fallback

C20_Witness ==
    /\ ~request.isFallbackAttempt
    /\ Len(runs) = 3
    /\ runs[2].fallback
    /\ runs[3].fallback
    /\ \E i \in 1..Len(calls) : \E j \in 1..Len(calls) :
          /\ i < j
          /\ calls[i].fallback
          /\ calls[j].fallback
          /\ calls[i].provider = calls[j].provider
          /\ calls[j].attempt = calls[i].attempt + 1

(* ------------------------ requests and the retry loop ------------------ *)

\* C21: every request handed to an adapter names that adapter in
\* model.provider and carries that provider's configured model id, on the
\* primary run (also when the default replaced an unconfigured preference)
\* and on every fallback run.
C21_RequestMatchesAdapter ==
    /\ \A i \in 1..Len(calls) :
          /\ calls[i].requestProvider = calls[i].provider
          /\ calls[i].model = ModelId(calls[i].provider)
    /\ pc \in {"call", "wait"}
         => /\ exec.request.provider = exec.providerName
            /\ exec.request.model = ModelId(exec.providerName)

C21_Witness ==
    /\ request.provider = "deepseek"
    /\ "deepseek" \notin apiKeys
    /\ Len(calls) = 2
    /\ calls[1].provider = "openai"
    /\ calls[1].requestProvider = "openai"
    /\ calls[2].provider = "anthropic"
    /\ calls[2].fallback
    /\ calls[2].model = "anthropicModel"

\* C25: fallback is enabled, the request is not itself a fallback attempt,
\* one provider is configured and it fails with an LLMError: the candidate
\* list is empty, no other adapter is invoked and the call ends with one
\* consolidated LLMError that names the primary provider and carries its
\* failure reason and an empty list of fallback providers.
C25_EmptyCandidateList ==
    (/\ llmEnableFallback
     /\ ~request.isFallbackAttempt
     /\ Cardinality(apiKeys) = 1
     /\ pc = "done"
     /\ result.kind # "response")
      => /\ orch.fallbackProviders = <<>>
         /\ Len(runs) = 1
         /\ \A i \in 1..Len(calls) : calls[i].provider = orch.providerName
         /\ orch.error = settled
         /\ result.kind = "LLMError"
         /\ ~result.retryable
         /\ result.provider = orch.providerName
         /\ Carries(result.message,
               <<orch.providerName, "failed with:">> \o settled.message
                 \o <<"Fallback providers (",
                      ") also failed. Please check your API keys and provider status.">>)

C25_Witness ==
    /\ llmEnableFallback
    /\ ~request.isFallbackAttempt
    /\ apiKeys = {"anthropic"}
    /\ pc = "done"
    /\ result.kind = "LLMError"
    /\ settled.statusCode = 401
    /\ Len(calls) = 1

\* the latest settled adapter call ended the executor run it belongs to
RunEnded ==
    /\ outcomes # <<>>
    /\ pc # "wait"
    /\ \/ Len(calls) = Len(outcomes)
       \/ calls[Len(calls)].provider # outcomes[Len(outcomes)].provider

\* where an error thrown by the latest executor run is found: the outcome of
\* the call or the primary error of the fallback loop for the primary run,
\* the dead frame of the run for a fallback run
ThrownIs(error) ==
    IF outcomes[Len(outcomes)].provider = orch.providerName
    THEN IF FallbackEntered THEN orch.error = error
         ELSE pc = "done" /\ result = error
    ELSE pc = "done" => exec.lastError = error

\* C27: the adapter threw something that is not an LLMError: the executor
\* starts no backoff wait and makes no further call of that adapter, and
\* throws an LLMError that is not retryable and names the adapter, on
\* whatever attempt it happened.
C27_UnexpectedNeverRetried ==
    (outcomes # <<>> /\ settled.kind = "Error")
      => LET n == Len(outcomes)
             X == outcomes[n].provider
         IN  /\ RunEnded
             /\ \A w \in 1..Len(waits) :
                   ~(waits[w].provider = X
                       /\ waits[w].attempt = calls[n].attempt)
             /\ Len(CallsOf(X)) = calls[n].attempt
             /\ ThrownIs(LLMError(<<"Unexpected error:">> \o settled.message,
                                  X, NoStatus, FALSE))

C27_Witness ==
    /\ settled.kind = "Error"
    /\ Len(calls) = 2
    /\ calls[2].attempt = 2
    /\ pc = "done"
    /\ result.kind = "LLMError"
    /\ result.provider = "deepseek"
    /\ ~result.retryable
    /\ ~llmEnableFallback

\* C28: every one of the maxRetries + 1 attempts of a run failed with a
\* retryable LLMError (maxRetries being the ceiling the loop runs with): the
\* run throws the error of its final attempt as the
\* adapter threw it, and started no backoff wait after that attempt.
C28_LastErrorThrown ==
    (RunEnded /\ RetryableFailure(outcomes[Len(outcomes)]))
      => LET n == Len(outcomes)
             X == outcomes[n].provider
         IN  /\ calls[n].attempt = exec.maxRetries + 1
             /\ Len(CallsOf(X)) = exec.maxRetries + 1
             /\ Len(WaitsOf(X)) = exec.maxRetries
             /\ \A w \in 1..Len(waits) :
                   waits[w].provider = X => waits[w].attempt <= exec.maxRetries
             /\ settled.kind = "LLMError"
             /\ settled.retryable
             /\ ThrownIs(settled)

C28_Witness ==
    /\ pc = "done"
    /\ ~llmEnableFallback
    /\ request.maxRetries = 2
    /\ Len(calls) = 3
    /\ Len(waits) = 2
    /\ result.kind = "LLMError"
    /\ result = settled
    /\ result.retryable
    /\ result.statusCode = 503
    /\ result.provider = "anthropic"

\* one step of the retry loop of a run, or the start of the next run
LinearStep ==
    /\ pc = "idle"
         => /\ pc' \in {"call", "done"}
            /\ pc' = "call" => exec'.attempt = 1 /\ Len(calls') = 1
    /\ pc = "call"
         => \/ /\ pc' = "done"
               /\ calls' = calls
            \/ /\ pc' = "wait"
               /\ calls' = calls
               /\ exec'.attempt = exec.attempt
               /\ exec'.providerName = exec.providerName
            \/ /\ pc' = "call"
               /\ exec'.attempt = 1
               /\ exec'.providerName # exec.providerName
               /\ exec'.providerName \notin {calls[i].provider : i \in 1..Len(calls)}
               /\ Len(calls') = Len(calls) + 1
    /\ pc = "wait"
         => /\ pc' = "call"
            /\ exec'.attempt = exec.attempt + 1
            /\ exec'.providerName = exec.providerName
            /\ Len(calls') = Len(calls) + 1
            /\ calls'[Len(calls')].attempt = exec.attempt + 1
    /\ pc # "done"

\* C29: the retry loop is a linear state machine: an attempt ends in success,
\* in failure or, after a backoff wait, in the next attempt; attempts start
\* at 1 and go up by exactly 1 per retry; after success or failure of a run
\* its adapter is not invoked again.
C29_LinearStateMachine == [][LinearStep]_vars

C29_Witness ==
    /\ Len(calls) = 4
    /\ calls[1].attempt = 1
    /\ calls[2].attempt = 2
    /\ calls[3].attempt = 3
    /\ calls[4].attempt = 1
    /\ calls[4].provider # calls[3].provider
    /\ Len(waits) = 2

\* C24 as stated: a transport-level failure of the backend call (no HTTP
\* status) leaves every adapter as a retryable LLMError.
C24_TransportIsRetryable ==
    (Answered /\ adapter.reaction.kind = "transport")
      => /\ adapter.out.kind = "LLMError"
         /\ adapter.out.retryable

\* C23 as stated: a plan generation that fails after a provider was attempted
\* delivers a failure that names the primary provider, tells whether fallback
\* was attempted and names the fallback providers that failed.
C23_CallerSeesProviders ==
    (FromGeneratePlan /\ pc = "done" /\ calls # <<>>
       /\ result.kind # "response")
      => /\ Carries(Delivered.message, <<orch.providerName>>)
         /\ FallbackEntered
              <=> Carries(Delivered.message, <<"Fallback providers (">>)
         /\ FallbackEntered
              => Carries(Delivered.message,
                         <<"Fallback providers (">> \o orch.fallbackProviders)

\* C30 as stated, its bound: a generatePlanWithRetry call makes at most
\* (number of configured providers) x (maxRetries + 1) adapter invocations,
\* maxRetries being what the request asks for.
C30_InvocationBound ==
    pc # "idle"
      => Len(calls) <= Cardinality(apiKeys) * (RequestedMaxRetries + 1)

C26_SuccessMeansStored ==
    /\ \A id \in PlanIds : posts[id].response = "success" => id \in planFiles
    /\ got.afterSuccess => got.found

\* C26 as amended: POST /plans answers success = true once the planning
\* module returned a plan, whether savePlan succeeded or threw; the plan is
\* retrievable by getPlanById from then on exactly when savePlan got as far
\* as writing the plan file, whatever became of the index update.
C26_StoredWhenFileWritten ==
    /\ \A id \in PlanIds :
          /\ posts[id].pc = "done"
               => posts[id].response
                    = IF posts[id].planned THEN "success" ELSE "error"
          /\ posts[id].response = "success"
               => (id \in planFiles <=> posts[id].wrote)
          /\ posts[id].saved => posts[id].wrote
          /\ id \in planFiles <=> posts[id].wrote
    /\ got.afterSuccess => (got.found <=> posts[got.id].wrote)

C26_Witness ==
    /\ posts["id1"].response = "success"
    /\ posts["id1"].wrote
    /\ ~posts["id1"].saved
    /\ posts["id1"].attempt = IndexMaxRetries
    /\ got = [id |-> "id1", found |-> TRUE, afterSuccess |-> TRUE]
    /\ posts["id2"].response = "success"
    /\ ~posts["id2"].wrote

(* ------------------------- adapters, once more ------------------------- *)

\* C32: every LLMResponse and every LLMError a generateCompletion call of an
\* adapter produces carries that adapter's own name in its provider field:
\* on success, on the missing-key failure, on an empty completion, on an API
\* error of any status and on a transport failure.
C32_ProviderIsOwnIdentity ==
    (adapter.pc = "settled" /\ adapter.out.kind \in {"response", "LLMError"})
      => adapter.out.provider = adapter.provider

C32_Witness ==
    /\ adapter.pc = "settled"
    /\ adapter.provider = "deepseek"
    /\ adapter.reaction.kind = "transport"
    /\ adapter.out.kind = "LLMError"
    /\ adapter.out.provider = "deepseek"

PrimaryCeiling == OrElse(request.maxRetries, llmMaxRetries)

\* the executor run of provider p is over
RunOver(p) ==
    /\ OutcomesOf(p) # <<>>
    /\ Len(OutcomesOf(p)) = Len(CallsOf(p))
    /\ pc = "done" \/ exec.providerName # p

\* C33: every fallback candidate gets an executor run of its own: its first
\* call is attempt 1, its loop runs with the ceiling and the base delay the
\* primary's loop ran with, its attempts are numbered 1, 2, ... up to at most
\* ceiling + 1, and a candidate that keeps failing retryably makes all
\* ceiling + 1 attempts, whatever the primary and the earlier candidates
\* used up.
C33_FreshRunPerCandidate ==
    /\ pc \in {"call", "wait"} =>
          /\ exec.maxRetries = PrimaryCeiling
          /\ exec.baseDelay = RequestedBaseDelay
    /\ \A r \in 2..Len(runs) :
          LET p == runs[r].provider
              cs == CallsOf(p)
              os == OutcomesOf(p)
          IN  /\ cs # <<>>
              /\ \A k \in 1..Len(cs) : cs[k].attempt = k /\ cs[k].fallback
              /\ Len(cs) <= PrimaryCeiling + 1
              /\ \A w \in 1..Len(WaitsOf(p)) :
                    WaitsOf(p)[w].delay
                      = BackoffDelay(RequestedBaseDelay, WaitsOf(p)[w].attempt)
              /\ (RunOver(p) /\ RetryableFailure(os[Len(os)]))
                   => Len(cs) = PrimaryCeiling + 1

C33_Witness ==
    /\ request.maxRetries = 2
    /\ request.retryDelay = 1
    /\ Len(runs) = 3
    /\ Len(CallsOf(runs[1].provider)) = 3
    /\ Len(CallsOf(runs[2].provider)) = 3
    /\ calls[4].attempt = 1
    /\ calls[6].attempt = 3
    /\ calls[7].attempt = 1
    /\ RunOver(runs[2].provider)
    /\ Len(WaitsOf(runs[2].provider)) = 2
    /\ WaitsOf(runs[2].provider)[2].delay = 2

\* backoff timers of the call that were started and have not fired
PendingWaits ==
    Len(waits) - Cardinality({i \in 1..Len(calls) : calls[i].attempt > 1})

\* adapter calls of the call that were made and have not settled
PendingCalls == Len(calls) - Len(outcomes)

\* the i-th adapter call was the last one of an executor run that failed:
\* it ended in an error the loop does not retry
EndedRunInFailure(i) ==
    /\ i <= Len(outcomes)
    /\ ~outcomes[i].ok
    /\ ~outcomes[i].retryable \/ calls[i].attempt = PrimaryCeiling + 1

\* C35: within one generatePlanWithRetry call the adapter calls and backoff
\* waits form one chain: at most one adapter call or one backoff wait is
\* pending at any time, each adapter call is made after the previous one
\* settled, and a call of another adapter than the previous one is made only
\* after the previous adapter's run ended in failure; the adapters come in
\* the order primary, candidate 1, candidate 2, so no candidate is invoked
\* before the primary's run and every earlier candidate's run have failed.
C35_OneRunAtATime ==
    /\ PendingCalls = (IF pc = "call" THEN 1 ELSE 0)
    /\ PendingWaits = (IF pc = "wait" THEN 1 ELSE 0)
    /\ \A j \in 1..Len(outcomes) : outcomes[j].provider = calls[j].provider
    /\ \A i \in 1..Len(calls) :
          \E r \in 1..Len(runs) :
              /\ runs[r].provider = calls[i].provider
              /\ r > 1 => /\ i > 1
                          /\ calls[i - 1].provider \in
                               {runs[r].provider, runs[r - 1].provider}
    /\ \A i \in 1..(Len(calls) - 1) :
          calls[i + 1].provider # calls[i].provider
            => /\ EndedRunInFailure(i)
               /\ calls[i + 1].attempt = 1
               /\ \A j \in 1..i : calls[j].provider # calls[i + 1].provider

C35_Witness ==
    /\ pc = "wait"
    /\ Len(runs) = 3
    /\ Len(calls) = 4
    /\ calls[1].attempt = 1 /\ calls[2].attempt = 2
    /\ calls[3].provider # calls[2].provider
    /\ calls[4].provider # calls[3].provider
    /\ outcomes[2].retryable
    /\ ~outcomes[3].retryable
    /\ PendingWaits = 1

\* C36: the consolidated error generatePlanWithRetry throws once the
\* fallback loop is over without a success is never retryable, names the
\* primary provider and carries the status code of the error the primary's
\* run ended with (none when that error had none), whether or not that error
\* was retryable and whatever the candidates failed with.
C36_ConsolidatedFields ==
    TotalFailure
      => /\ ~result.retryable
         /\ result.provider = orch.providerName
         /\ result.provider = runs[1].provider
         /\ orch.error.provider = orch.providerName
         /\ result.statusCode = orch.error.statusCode
         /\ Len(runs) = 1 => /\ orch.error = settled
                             /\ result.statusCode = settled.statusCode

C36_Witness ==
    /\ TotalFailure
    /\ orch.error.retryable
    /\ orch.error.statusCode = 429
    /\ result.statusCode = 429
    /\ ~result.retryable
    /\ Len(runs) = 3
    /\ settled.statusCode = 401
    /\ settled.provider # result.provider

(* ------------------------ what reaches the adapter --------------------- *)

\* request q differs from the caller's request in nothing but model.provider,
\* model.model and isFallbackAttempt
SameButRouting(q) ==
    [q EXCEPT !.provider = request.provider, !.model = request.model,
              !.isFallbackAttempt = request.isFallbackAttempt] = request

\* C38: every adapter call of a generatePlanWithRetry call, first attempt,
\* retry or fallback attempt, is handed the caller's prompt, system prompt,
\* model.maxTokens and model.temperature (not the selected provider's
\* defaults); the request of the running executor differs from the caller's
\* in model.provider, model.model and isFallbackAttempt only; and no step
\* after the invocation changes the caller's request.
C38_PayloadUnchanged ==
    /\ [](/\ \A i \in 1..Len(calls) :
                /\ calls[i].prompt = request.prompt
                /\ calls[i].systemPrompt = request.systemPrompt
                /\ calls[i].maxTokens = request.maxTokens
                /\ calls[i].temperature = request.temperature
          /\ pc \in {"call", "wait"} => SameButRouting(exec.request))
    /\ [][pc # "idle" => request' = request]_vars

C38_Witness ==
    /\ Len(calls) = 4
    /\ calls[2].attempt = 2
    /\ calls[3].fallback /\ calls[4].fallback
    /\ calls[4].attempt = 2
    /\ calls[4].provider # request.provider
    /\ calls[4].model # request.model
    /\ calls[4].maxTokens = CallerMaxTokens
    /\ calls[4].maxTokens # llmMaxTokens
    /\ calls[4].temperature = CallerTemperature
    /\ calls[4].prompt = CallerPrompt
    /\ exec.request # request

(* --------------------------- validateProviders ------------------------- *)

\* C37 as stated: validateProviders lists a provider as working only if that
\* provider's own adapter returned the successful response of its
\* connection test.
C37_WorkingMeansOwnSuccess ==
    \A i \in 1..Len(validation.tests) :
        validation.tests[i].returned
          => validation.tests[i].answeredBy = validation.tests[i].provider

\* C31: no step of validateProviders, of the testConnection calls it makes,
\* or of the generatePlanWithRetry, selectProvider and getAvailableProviders
\* calls below them changes the registry: the configured providers, their
\* order and defaultProvider are after every step what they were before it,
\* whether the step belongs to a call that succeeds or to one that fails.
C31_RegistryReadOnly ==
    [][/\ defaultProvider' = defaultProvider
       /\ getAvailableProviders(apiKeys') = getAvailableProviders(apiKeys)
       /\ \A p \in LLMProvider :
             isConfigured(p, apiKeys') <=> isConfigured(p, apiKeys)]_vars

C31_Witness ==
    /\ validation.pc = "done"
    /\ Len(validation.configured) = 3
    /\ validation.working = <<"anthropic">>
    /\ Cardinality(validation.errors) = 2
    /\ defaultLlmProvider = "deepseek"
    /\ defaultProvider = "deepseek"
    /\ getAvailableProviders(apiKeys) = validation.configured

(* ---------------------------- the plan index --------------------------- *)

\* C39 as stated: once the savePlan calls of the POST requests have all
\* returned successfully (here with every index read succeeding as well),
\* the index file lists every one of their plan ids.
C39_NoIndexUpdateLost ==
    (\A id \in PlanIds :
        posts[id].pc = "done" /\ posts[id].saved /\ posts[id].readOk)
      => \A id \in PlanIds : id \in IndexIds(indexFile)

\* the successful savePlan calls of plan id, by their position in ops
SavesOf(id) ==
    {k \in 1..Len(ops) :
        ops[k].op = "savePlan" /\ ops[k].id = id /\ ops[k].returned = "plan"}

\* the latest of a non-empty set of positions
Latest(positions) == CHOOSE k \in positions : \A j \in positions : j <= k

\* C40: after any sequence of savePlan and deletePlan calls made one after
\* the other, whether they returned or threw, totalCount of the index is the
\* number of its entries, no plan id is listed twice, and every entry holds
\* the status of the latest successful savePlan of its id; right after a
\* successful savePlan its id is listed exactly once, right after a
\* deletePlan that returned true its id is neither listed nor stored.
C40_IndexConsistent ==
    /\ indexFile.totalCount = Len(indexFile.plans)
    /\ \A i, j \in 1..Len(indexFile.plans) :
          i # j => indexFile.plans[i].id # indexFile.plans[j].id
    /\ \A i \in 1..Len(indexFile.plans) :
          LET entry == indexFile.plans[i]
          IN  /\ SavesOf(entry.id) # {}
              /\ entry.status = ops[Latest(SavesOf(entry.id))].status
    /\ ops # <<>> =>
          LET last == ops[Len(ops)]
          IN  /\ (last.op = "savePlan" /\ last.returned = "plan")
                   => /\ Cardinality({i \in 1..Len(indexFile.plans) :
                                        indexFile.plans[i].id = last.id}) = 1
                      /\ last.id \in planFiles
              /\ (last.op = "deletePlan" /\ last.returned = "true")
                   => /\ last.id \notin IndexIds(indexFile)
                      /\ last.id \notin planFiles

C40_Witness ==
    /\ Len(ops) = 3
    /\ ops[1] = [op |-> "savePlan", id |-> "id1", status |-> "completed",
                 returned |-> "plan"]
    /\ ops[2].op = "savePlan" /\ ops[2].id = "id2"
    /\ ops[3] = [op |-> "savePlan", id |-> "id1", status |-> "failed",
                 returned |-> "plan"]
    /\ indexFile = [plans |-> <<IndexEntry("id1", "failed"),
                                IndexEntry("id2", "completed")>>,
                    totalCount |-> 2]

====
